---- MODULE Spec2Model ----
(***************************************************************************)
(* A model of rust-utils-lib: the storage operations of file_io_utils.rs   *)
(* over a small file system, and the pure functions of math_utils.rs and   *)
(* date_utils.rs applied to inputs drawn from bounded sets.                *)
(***************************************************************************)
EXTENDS Integers, Sequences, FiniteSets, TLC

VARIABLES
    fs,     \* storage: path -> file state (existence and bytes)
    fs0,    \* storage: the file system found at start
    calls,  \* storage: the calls made so far, each with its outcome
    threads,\* storage: the concurrent callers, each with its call and position
    fn,     \* pure functions: the function called ("none" in the storage runs)
    args,   \* pure functions: its arguments
    out,    \* pure functions: its result, once it has returned
    pc,     \* pure functions: "ready" before the call, "done" after it
    locals  \* pure functions: the local variables of a loop run step by step

vars == <<fs, fs0, calls, threads, fn, args, out, pc, locals>>

storageVars == <<fs, fs0, calls, threads>>
pureVars == <<fn, args, out, pc, locals>>

\* Option<T>: None is the empty sequence, Some(v) a one-element sequence.
None == <<>>
Some(v) == <<v>>

(***************************************************************************)
(* Storage module (file_io_utils.rs)                                       *)
(***************************************************************************)

\* The longest call history explored.
MaxCalls == 3

\* Two paths in a writable directory, one whose parent directory is missing.
Paths == {"a.txt", "b.txt", "missing_dir/c.txt"}
ParentExists(path) == path # "missing_dir/c.txt"

\* A &str is a sequence of Unicode scalar values: 'a' (U+0061), 'é' (U+00E9).
Contents == {<<>>, <<97>>, <<233>>}

\* str::as_bytes: the UTF-8 encoding of a scalar value below U+0800.
EncodeChar(cp) ==
    IF cp < 128 THEN <<cp>> ELSE <<192 + (cp \div 64), 128 + (cp % 64)>>

RECURSIVE as_bytes(_)
as_bytes(s) ==
    IF s = <<>> THEN <<>> ELSE EncodeChar(Head(s)) \o as_bytes(Tail(s))

\* String::from_utf8 as read_to_string applies it: None on invalid UTF-8
\* (a stray continuation byte, a lead byte without its continuation, an
\* overlong two-byte form), otherwise the decoded scalar values.
RECURSIVE from_utf8(_)
from_utf8(bytes) ==
    IF bytes = <<>> THEN Some(<<>>)
    ELSE LET b == Head(bytes) IN
         IF b < 128
         THEN LET rest == from_utf8(Tail(bytes)) IN
              IF rest = None THEN None ELSE Some(<<b>> \o rest[1])
         ELSE IF b >= 194 /\ b <= 223 /\ Len(bytes) >= 2
                 /\ bytes[2] >= 128 /\ bytes[2] <= 191
         THEN LET rest == from_utf8(Tail(Tail(bytes))) IN
              IF rest = None THEN None
              ELSE Some(<<(b - 192) * 64 + (bytes[2] - 128)>> \o rest[1])
         ELSE None

\* A file: whether the path names one, and its bytes.
Absent == [exists |-> FALSE, bytes |-> <<>>]
FileOf(bytes) == [exists |-> TRUE, bytes |-> bytes]

\* io::Result: Ok(value) or Err(kind).
Ok(v) == [ok |-> TRUE, val |-> v, err |-> ""]
Err(kind) == [ok |-> FALSE, val |-> <<>>, err |-> kind]

\* File::open(path): the file must exist.
FileOpen(f, path) == IF f[path].exists THEN Ok(path) ELSE Err("NotFound")

\* A create that opens an existing file without truncating it.
CreateNoTruncate(f, path) ==
    IF f[path].exists THEN f ELSE [f EXCEPT ![path] = FileOf(<<>>)]

\* File::create(path), in a directory that exists: create the file or
\* truncate it to length 0. Yields the file system afterwards.
FileCreate(f, path) == [f EXCEPT ![path] = FileOf(<<>>)]

\* An append-open that truncates, as File::create does.
OpenAppendTruncating(f, path) == [f EXCEPT ![path] = FileOf(<<>>)]

\* OpenOptions::new().create(true).append(true).open(path): create the file
\* if absent, keep its bytes otherwise.
OpenAppend(f, path) ==
    IF f[path].exists THEN f ELSE [f EXCEPT ![path] = FileOf(<<>>)]

\* write_all through a handle at offset `off`: the bytes overwrite what is at
\* off.. and extend the file past its end.
WriteAt(old, off, bytes) ==
    LET n == IF Len(old) > off + Len(bytes) THEN Len(old) ELSE off + Len(bytes)
    IN [i \in 1..n |->
           IF i > off /\ i <= off + Len(bytes) THEN bytes[i - off] ELSE old[i]]

\* A write through a handle opened without append: it starts at offset 0.
WriteAppendAtStart(old, bytes) == WriteAt(old, 0, bytes)

\* write_all through a handle opened for append: every write goes to the end.
WriteAppend(old, bytes) == old \o bytes

\* A read that hands back the bytes without checking that they are UTF-8.
ReadSkippingDecode(f, path) ==
    IF ~f[path].exists THEN Err("NotFound")
    ELSE Ok(f[path].bytes)

\* read_file: File::open, then read_to_string.
read_file(f, path) ==
    IF ~FileOpen(f, path).ok THEN Err("NotFound")
    ELSE LET s == from_utf8(f[path].bytes) IN
         IF s = None THEN Err("InvalidData") ELSE Ok(s[1])

\* write_file: File::create, then write_all from offset 0. Yields the file
\* system afterwards and the outcome.
write_file(f, path, content) ==
    IF ~ParentExists(path) THEN [fs |-> f, res |-> Err("NotFound")]
    ELSE LET created == FileCreate(f, path) IN
         [fs  |-> [created EXCEPT ![path] =
                      FileOf(WriteAt(created[path].bytes, 0, as_bytes(content)))],
          res |-> Ok(<<>>)]

\* append_to_file: open with create + append, then write_all at the end.
append_to_file(f, path, content) ==
    IF ~ParentExists(path) THEN [fs |-> f, res |-> Err("NotFound")]
    ELSE LET opened == OpenAppend(f, path) IN
         [fs  |-> [opened EXCEPT ![path] =
                      FileOf(WriteAppend(opened[path].bytes, as_bytes(content)))],
          res |-> Ok(<<>>)]

Call(op, path, content, res) ==
    [op |-> op, path |-> path, content |-> content, res |-> res]

\* A read that opens its path with create, as append_to_file does.
ReadFileCreating(path) ==
    /\ Len(calls) < MaxCalls
    /\ calls' = Append(calls, Call("read_file", path, <<>>, read_file(fs, path)))
    /\ fs' = OpenAppend(fs, path)
    /\ UNCHANGED <<fs0, threads>>
    /\ UNCHANGED pureVars

\* A call of read_file: nothing but the outcome is recorded.
ReadFile(path) ==
    /\ Len(calls) < MaxCalls
    /\ calls' = Append(calls, Call("read_file", path, <<>>, read_file(fs, path)))
    /\ UNCHANGED <<fs, fs0, threads>>
    /\ UNCHANGED pureVars

WriteFile(path, content) ==
    /\ Len(calls) < MaxCalls
    /\ LET r == write_file(fs, path, content) IN
       /\ fs' = r.fs
       /\ calls' = Append(calls, Call("write_file", path, content, r.res))
    /\ UNCHANGED <<fs0, threads>>
    /\ UNCHANGED pureVars

AppendToFile(path, content) ==
    /\ Len(calls) < MaxCalls
    /\ LET r == append_to_file(fs, path, content) IN
       /\ fs' = r.fs
       /\ calls' = Append(calls, Call("append_to_file", path, content, r.res))
    /\ UNCHANGED <<fs0, threads>>
    /\ UNCHANGED pureVars

\* Files found at start: absent, empty, ASCII, a lone lead byte (invalid
\* UTF-8), a lone continuation byte (invalid), and "éa" (three bytes).
InitFiles ==
    {Absent, FileOf(<<>>), FileOf(<<97>>), FileOf(<<195>>), FileOf(<<169>>),
     FileOf(<<195, 169, 97>>)}

PureIdle ==
    fn = "none" /\ args = <<>> /\ out = <<>> /\ pc = "idle" /\ locals = <<>>

InitStorage ==
    /\ \E f \in InitFiles :
          fs = [p \in Paths |-> IF p = "a.txt" THEN f ELSE Absent]
    /\ fs0 = fs
    /\ calls = <<>>
    /\ threads = <<>>
    /\ PureIdle

NextStorage ==
    \E path \in Paths, content \in Contents :
        \/ ReadFile(path)
        \/ WriteFile(path, content)
        \/ AppendToFile(path, content)

SpecStorage == InitStorage /\ [][NextStorage]_vars

(***************************************************************************)
(* Storage claims                                                          *)
(***************************************************************************)

IsWrite(c) == c.op = "write_file"
IsAppend(c) == c.op = "append_to_file"
IsRead(c) == c.op = "read_file"

\* C1: a successful write_file(path, c) directly followed by read_file(path)
\* returns exactly c, whatever the path held before (absent, shorter, longer,
\* not UTF-8): nothing of the previous content remains.
C1_WriteThenRead ==
    \A i \in 1..(Len(calls) - 1) :
        (/\ IsWrite(calls[i]) /\ calls[i].res.ok
         /\ IsRead(calls[i + 1]) /\ calls[i + 1].path = calls[i].path)
        => calls[i + 1].res = Ok(calls[i].content)

\* C1 witness: a.txt held the three bytes of "éa", is overwritten with the
\* one-byte "a" and with the empty string, and each read returns what was
\* last written.
C1_Witness ==
    /\ fs0["a.txt"] = FileOf(<<195, 169, 97>>)
    /\ Len(calls) = 3
    /\ calls[1] = Call("write_file", "a.txt", <<97>>, Ok(<<>>))
    /\ calls[2] = Call("read_file", "a.txt", <<>>, Ok(<<97>>))
    /\ calls[3] = Call("write_file", "a.txt", <<>>, Ok(<<>>))
    /\ fs["a.txt"] = FileOf(<<>>)

\* The write_file and append_to_file calls made on a path, in call order.
RECURSIVE MutationsOn(_, _)
MutationsOn(cs, path) ==
    IF cs = <<>> THEN <<>>
    ELSE LET rest == MutationsOn(Tail(cs), path) IN
         IF Head(cs).path = path /\ ~IsRead(Head(cs))
         THEN <<Head(cs)>> \o rest ELSE rest

\* The text the claim predicts after a sequence of successful calls: the
\* content of the most recent write_file (empty if none), then the contents
\* of the later append_to_file calls in call order.
RECURSIVE ExpectedText(_)
ExpectedText(ms) ==
    IF ms = <<>> THEN <<>>
    ELSE LET last == ms[Len(ms)] IN
         IF IsWrite(last) THEN last.content
         ELSE ExpectedText(SubSeq(ms, 1, Len(ms) - 1)) \o last.content

C2_ContentIsLastWriteThenAppends ==
    \A path \in Paths :
        LET ms == MutationsOn(calls, path) IN
        (/\ ~fs0[path].exists
         /\ ms # <<>>
         /\ \A i \in 1..Len(ms) : ms[i].res.ok)
        => fs[path] = FileOf(as_bytes(ExpectedText(ms)))

\* A step that is a successful append_to_file keeps the bytes the file had as
\* a prefix of the new bytes, and on an absent path leaves the file system
\* write_file would leave.
C2_AppendStep ==
    (/\ Len(calls') = Len(calls) + 1
     /\ IsAppend(calls'[Len(calls')])
     /\ calls'[Len(calls')].res.ok)
    => LET c == calls'[Len(calls')] IN
       /\ Len(fs'[c.path].bytes) >= Len(fs[c.path].bytes)
       /\ SubSeq(fs'[c.path].bytes, 1, Len(fs[c.path].bytes)) = fs[c.path].bytes
       /\ ~fs[c.path].exists => fs' = write_file(fs, c.path, c.content).fs

\* C2: after successful write_file and append_to_file calls on a path that
\* started absent, the file holds the most recent write_file content followed
\* by the later append_to_file contents in order; an append never alters
\* existing bytes; an append on an absent path acts as write_file.
C2_WriteAppendHistory ==
    /\ []C2_ContentIsLastWriteThenAppends
    /\ [][C2_AppendStep]_vars

\* C2 witness: on b.txt, absent at start, write "a", append "é", append "a":
\* the file holds the bytes of "aéa".
C2_Witness ==
    /\ Len(calls) = 3
    /\ calls[1] = Call("write_file", "b.txt", <<97>>, Ok(<<>>))
    /\ calls[2] = Call("append_to_file", "b.txt", <<233>>, Ok(<<>>))
    /\ calls[3] = Call("append_to_file", "b.txt", <<97>>, Ok(<<>>))
    /\ fs["b.txt"] = FileOf(<<97, 195, 169, 97>>)

\* Well-formed UTF-8 over one- and two-byte forms, stated on the bytes: every
\* byte is ASCII, a two-byte lead followed by a continuation, or a
\* continuation preceded by a lead.
IsAscii(b) == b < 128
IsLead2(b) == b >= 194 /\ b <= 223
IsCont(b) == b >= 128 /\ b <= 191
ValidUtf8(bytes) ==
    \A i \in 1..Len(bytes) :
        \/ IsAscii(bytes[i])
        \/ IsLead2(bytes[i]) /\ i < Len(bytes) /\ IsCont(bytes[i + 1])
        \/ IsCont(bytes[i]) /\ i > 1 /\ IsLead2(bytes[i - 1])

C3_ReadStep ==
    (/\ Len(calls') = Len(calls) + 1
     /\ IsRead(calls'[Len(calls')]))
    => LET c == calls'[Len(calls')] IN
       /\ c.res.ok <=> (fs[c.path].exists /\ ValidUtf8(fs[c.path].bytes))
       /\ ~c.res.ok => c.res.val = <<>>
       /\ c.res.ok => as_bytes(c.res.val) = fs[c.path].bytes

\* C3: read_file fails, carrying no content, when the path names no file or
\* the file's bytes are not valid UTF-8; it succeeds exactly when the file
\* exists and is valid UTF-8, and then returns the whole content.
C3_ReadFailsOrReturnsAll == [][C3_ReadStep]_vars

\* C3 witness: a read of the lone lead byte failed, a read of an absent path
\* failed, and a read of a written file returned its content.
C3_Witness ==
    /\ fs0["a.txt"] = FileOf(<<195>>)
    /\ Len(calls) = 3
    /\ calls[1] = Call("read_file", "a.txt", <<>>, Err("InvalidData"))
    /\ calls[2] = Call("read_file", "b.txt", <<>>, Err("NotFound"))
    /\ calls[3] = Call("append_to_file", "a.txt", <<233>>, Ok(<<>>))
    /\ read_file(fs, "a.txt") = Err("InvalidData")

(***************************************************************************)
(* Numeric module (math_utils.rs)                                          *)
(***************************************************************************)

\* Arguments explored: factorial(0..MaxFactorialArg), gcd over
\* 0..MaxGcdArg squared, is_prime(0..MaxPrimeArg).
MaxFactorialArg == 25
MaxGcdArg == 24
MaxPrimeArg == 10000

\* A u64 product is held exactly, as its base-10000 digits, least significant
\* first, without leading zero digits (0 is the empty sequence).
U64Max == <<1615, 955, 737, 6744, 1844>>     \* 2^64 - 1 = 18446744073709551615
U64One == <<1>>

RECURSIVE StripZeros(_)
StripZeros(x) ==
    IF x # <<>> /\ x[Len(x)] = 0 THEN StripZeros(SubSeq(x, 1, Len(x) - 1)) ELSE x

\* The mathematical product x * k, for 0 <= k < 10000.
RECURSIVE MulCarry(_, _, _)
MulCarry(x, k, carry) ==
    IF x = <<>> THEN (IF carry = 0 THEN <<>> ELSE <<carry>>)
    ELSE LET v == Head(x) * k + carry IN
         <<v % 10000>> \o MulCarry(Tail(x), k, v \div 10000)

MulExact(x, k) == StripZeros(MulCarry(x, k, 0))

\* x <= y on exact values.
RECURSIVE LeqFrom(_, _, _)
LeqFrom(x, y, i) ==
    IF i = 0 THEN TRUE
    ELSE IF x[i] # y[i] THEN x[i] < y[i]
    ELSE LeqFrom(x, y, i - 1)

Leq(x, y) ==
    IF Len(x) # Len(y) THEN Len(x) < Len(y) ELSE LeqFrom(x, y, Len(x))

\* A multiplication that drops the overflow check (the exact product stands
\* for the value a wider type would hold).
UncheckedMul(x, k) == Some(MulExact(x, k))

\* u64::checked_mul: None when the product exceeds 2^64 - 1.
checked_mul(x, k) ==
    LET p == MulExact(x, k) IN IF Leq(p, U64Max) THEN Some(p) ELSE None

\* for i in 2..=n { result = result.checked_mul(i)?; }  Some(result)
RECURSIVE FactorialLoop(_, _, _)
FactorialLoop(result, i, n) ==
    IF i > n THEN Some(result)
    ELSE LET r == checked_mul(result, i) IN
         IF r = None THEN None ELSE FactorialLoop(r[1], i + 1, n)

\* factorial with its cutoff as a parameter.
factorial_with(n, cutoff) ==
    IF n > cutoff THEN None ELSE FactorialLoop(U64One, 2, n)

FactorialCutoff == 20

\* A cutoff test written n >= 20 instead of n > 20.
FactorialCutoffOffByOne(n) ==
    IF n >= FactorialCutoff THEN None ELSE FactorialLoop(U64One, 2, n)

factorial(n) == factorial_with(n, FactorialCutoff)

\* A loop body that assigns a before b uses it: b becomes b % b = 0 and the
\* loop returns the second operand.
GcdStaleOperand(a, b) == IF b # 0 THEN b ELSE a

\* A loop that also stops as soon as a < b, skipping the exchanging iteration.
RECURSIVE GcdSkipExchange(_, _)
GcdSkipExchange(a, b) ==
    IF b # 0 /\ a >= b THEN GcdSkipExchange(b, a % b) ELSE a

\* A loop body that exchanges the operands without taking the remainder.
GcdBodyWithoutRemainder(a, b) == <<b, a>>

\* One iteration of gcd's loop: temp = b; b = a % b; a = temp.
GcdBody(a, b) == <<b, a % b>>

\* gcd: while b != 0 { body }  a
RECURSIVE gcd(_, _)
gcd(a, b) ==
    IF b # 0 THEN gcd(GcdBody(a, b)[1], GcdBody(a, b)[2]) ELSE a

\* (n as f64).sqrt() as u64. Below 2^52 the conversion to f64 is exact and the
\* correctly rounded square root, truncated, is the integer square root.
F64SqrtAsU64(n) == CHOOSE k \in 0..n : k * k <= n /\ (k + 1) * (k + 1) > n

\* A trial division whose range leaves out the square root itself.
IsPrimeExclusiveBound(n) ==
    IF n = 0 \/ n = 1 THEN FALSE
    ELSE IF n = 2 THEN TRUE
    ELSE IF n % 2 = 0 THEN FALSE
    ELSE LET sqrt_n == F64SqrtAsU64(n) IN
         ~\E i \in 3..(sqrt_n - 1) : (i - 3) % 2 = 0 /\ n % i = 0

\* is_prime: the match arms in order, then odd trial divisors 3..=sqrt_n.
is_prime(n) ==
    IF n = 0 \/ n = 1 THEN FALSE
    ELSE IF n = 2 THEN TRUE
    ELSE IF n % 2 = 0 THEN FALSE
    ELSE LET sqrt_n == F64SqrtAsU64(n) IN
         ~\E i \in 3..sqrt_n : (i - 3) % 2 = 0 /\ n % i = 0

StorageIdle ==
    /\ fs = [p \in Paths |-> Absent]
    /\ fs0 = fs
    /\ calls = <<>>
    /\ threads = <<>>

InitMath ==
    /\ \/ \E n \in 0..MaxFactorialArg : fn = "factorial" /\ args = <<n>>
       \/ \E a, b \in 0..MaxGcdArg : fn = "gcd" /\ args = <<a, b>>
       \/ \E n \in 0..MaxPrimeArg : fn = "is_prime" /\ args = <<n>>
    /\ out = <<>>
    /\ pc = "ready"
    /\ locals = <<>>
    /\ StorageIdle

Returns(value) ==
    /\ out' = value
    /\ pc' = "done"
    /\ UNCHANGED <<fn, args, locals>>
    /\ UNCHANGED storageVars

CallFactorial ==
    /\ pc = "ready" /\ fn = "factorial"
    /\ Returns(factorial(args[1]))

CallGcd ==
    /\ pc = "ready" /\ fn = "gcd"
    /\ Returns(gcd(args[1], args[2]))

CallIsPrime ==
    /\ pc = "ready" /\ fn = "is_prime"
    /\ Returns(is_prime(args[1]))

NextMath == CallFactorial \/ CallGcd \/ CallIsPrime

SpecMath == InitMath /\ [][NextMath]_vars

Returned(f) == pc = "done" /\ fn = f

(***************************************************************************)
(* Numeric claims                                                          *)
(***************************************************************************)

\* n! by its defining recurrence, exactly.
RECURSIVE ExactFactorial(_)
ExactFactorial(n) == IF n = 0 THEN U64One ELSE MulExact(ExactFactorial(n - 1), n)

\* C4: for n in 0..20 factorial(n) is present and is exactly n!
\* (factorial(0) = factorial(1) = 1, factorial(n) = n * factorial(n-1), and
\* 20! = 2432902008176640000); for n > 20 it is absent; 20 is the exact
\* cutoff, 20! fitting in 64 bits and 21! not.
C4_FactorialExactUpTo20 ==
    Returned("factorial") =>
        LET n == args[1] IN
        /\ n <= 20 => out = Some(ExactFactorial(n))
        /\ n \in {0, 1} => out = Some(<<1>>)
        /\ n = 5 => out = Some(<<120>>)
        /\ n = 20 => out = Some(<<0, 7664, 81, 2902, 243>>)
        /\ (n >= 1 /\ n <= 20) => out = Some(MulExact(factorial(n - 1)[1], n))
        /\ n > 20 => out = None
        /\ Leq(ExactFactorial(20), U64Max) /\ ~Leq(ExactFactorial(21), U64Max)

\* C4 witness: factorial(20) returned 20!.
C4_Witness ==
    Returned("factorial") /\ args = <<20>> /\ out = Some(<<0, 7664, 81, 2902, 243>>)

Divides(d, n) == \E k \in 0..n : n = d * k

\* C5: gcd(a, b) divides a and b, every common divisor of a and b divides
\* it, gcd(a, a) = a, and gcd(0, x) = gcd(x, 0) = x, gcd(0, 0) = 0 included.
C5_GcdIsGreatestCommonDivisor ==
    Returned("gcd") =>
        LET a == args[1]
            b == args[2]
        IN
        /\ Divides(out, a) /\ Divides(out, b)
        /\ \A d \in 0..MaxGcdArg : (Divides(d, a) /\ Divides(d, b)) => Divides(d, out)
        /\ a = b => out = a
        /\ a = 0 => out = b
        /\ b = 0 => out = a

\* C5 witness: gcd(18, 12) returned 6.
C5_Witness == Returned("gcd") /\ args = <<18, 12>> /\ out = 6

\* C6: gcd(a, b) = gcd(b, a), also when a < b and when an argument is 0.
C6_GcdCommutative ==
    Returned("gcd") => out = gcd(args[2], args[1])

\* C6 witness: gcd(9, 24), whose first iteration exchanges the operands,
\* returned 3.
C6_Witness == Returned("gcd") /\ args = <<9, 24>> /\ out = 3

\* Primality by trial division over every candidate divisor.
TrialDivisionPrime(n) == n >= 2 /\ ~\E d \in 2..(n - 1) : n % d = 0

\* C7: for n in [0, 10000] is_prime(n) is the trial-division truth; 0 and 1
\* are not prime, 2 is, even numbers above 2 are not, 9, 25 and 121 are not,
\* and 25 values in [2, 100] are reported prime.
C7_IsPrimeMatchesTrialDivision ==
    Returned("is_prime") =>
        LET n == args[1] IN
        /\ out = TrialDivisionPrime(n)
        /\ n \in {0, 1} => ~out
        /\ n = 2 => out
        /\ (n > 2 /\ n % 2 = 0) => ~out
        /\ n \in {9, 25, 121} => ~out
        /\ n = 100 => Cardinality({m \in 2..100 : is_prime(m)}) = 25

\* C7 witness: is_prime(121) returned false, 11 being the last divisor tried.
C7_Witness ==
    Returned("is_prime") /\ args = <<121>> /\ out = FALSE /\ F64SqrtAsU64(121) = 11

(***************************************************************************)
(* Calendar module (date_utils.rs)                                         *)
(***************************************************************************)

\* Dates explored: years FirstYear .. FirstYear + YearSpan - 1.
FirstYear == 2023
YearSpan == 3
Years == FirstYear..(FirstYear + YearSpan - 1)

\* chrono::NaiveDate: a proleptic-Gregorian year, month and day.
Date(y, m, d) == [y |-> y, m |-> m, d |-> d]

\* A leap rule without the century exception.
LeapEveryFourYears(y) == y % 4 = 0
IsLeap(y) == y % 4 = 0 /\ (y % 100 # 0 \/ y % 400 = 0)

DaysInMonth(y, m) ==
    IF m = 2 THEN (IF IsLeap(y) THEN 29 ELSE 28)
    ELSE IF m \in {4, 6, 9, 11} THEN 30 ELSE 31

\* NaiveDate::from_ymd_opt(y, m, d).is_some()
ValidYMD(y, m, d) == m \in 1..12 /\ d >= 1 /\ d <= DaysInMonth(y, m)

RECURSIVE DaysBeforeMonth(_, _)
DaysBeforeMonth(y, m) ==
    IF m = 1 THEN 0 ELSE DaysBeforeMonth(y, m - 1) + DaysInMonth(y, m - 1)

\* The day's number counted from 0001-01-01 as day 1 (for years >= 1).
DayNumber(date) ==
    LET p == date.y - 1 IN
    365 * p + (p \div 4) - (p \div 100) + (p \div 400)
        + DaysBeforeMonth(date.y, date.m) + date.d

\* (*date2 - *date1).num_days()
NumDays(date1, date2) == DayNumber(date2) - DayNumber(date1)

\* A division rounding toward minus infinity.
FlooringDiv(a, b) == a \div b

\* i64 division: the quotient truncated toward zero (b > 0).
I64Div(a, b) == IF a >= 0 THEN a \div b ELSE -((-a) \div b)

\* A difference taken as date1 - date2.
DateDifferenceReversed(date1, date2) ==
    LET days == NumDays(date2, date1) IN
    [days |-> days, weeks |-> I64Div(days, 7), years |-> I64Div(days, 365)]

\* date_difference: days, days / 7, days / 365.
date_difference(date1, date2) ==
    LET days == NumDays(date1, date2) IN
    [days |-> days, weeks |-> I64Div(days, 7), years |-> I64Div(days, 365)]

\* The dates given to date_difference: the first, last and leap days of
\* January, February, March and December of each year.
InputDates ==
    {Date(y, m, d) : y \in Years, m \in {1, 2, 3, 12}, d \in {1, 28, 29, 31}}
        \cap {x \in [y : Years, m : 1..12, d : 1..31] : ValidYMD(x.y, x.m, x.d)}

\* &str as a sequence of characters, each a one-character string.
DigitChars == <<"0", "1", "2", "3", "4", "5", "6", "7", "8", "9">>
IsDigit(c) == \E i \in 1..10 : DigitChars[i] = c
DigitValue(c) == (CHOOSE i \in 1..10 : DigitChars[i] = c) - 1

\* ParseResult: Ok(value) with the text left over, or Err(kind).
Scanned(v, rest) == [ok |-> TRUE, val |-> v, rest |-> rest, err |-> ""]
ScanErr(kind) == [ok |-> FALSE, val |-> 0, rest |-> <<>>, err |-> kind]

\* chrono's scan::number(s, min, max): between min and max leading digits.
RECURSIVE ScanDigits(_, _, _, _)
ScanDigits(s, taken, max, acc) ==
    IF s # <<>> /\ taken < max /\ IsDigit(Head(s))
    THEN ScanDigits(Tail(s), taken + 1, max, acc * 10 + DigitValue(Head(s)))
    ELSE [taken |-> taken, val |-> acc, rest |-> s]

ScanNumber(s, min, max) ==
    IF Len(s) < min THEN ScanErr("TooShort")
    ELSE LET r == ScanDigits(s, 0, max, 0) IN
         IF r.taken < min THEN ScanErr("Invalid") ELSE Scanned(r.val, r.rest)

\* A numeric item: %Y takes an optional sign and then any number of digits,
\* or up to 4 digits without a sign; %m and %d take up to 2 digits.
ScanItem(s, item) ==
    IF item = "%Y"
    THEN IF s # <<>> /\ Head(s) = "-"
         THEN LET r == ScanNumber(Tail(s), 1, Len(s)) IN
              IF r.ok THEN Scanned(0 - r.val, r.rest) ELSE r
         ELSE IF s # <<>> /\ Head(s) = "+"
         THEN ScanNumber(Tail(s), 1, Len(s))
         ELSE ScanNumber(s, 1, 4)
    ELSE ScanNumber(s, 1, 2)

IsNumericItem(item) == item \in {"%Y", "%m", "%d"}

\* chrono's format::parse over the items of a format string, then
\* Parsed::to_naive_date: every item must match, nothing may be left over,
\* and the fields must form a date.
RECURSIVE ParseItems(_, _, _)
ParseItems(s, items, parsed) ==
    IF items = <<>>
    THEN IF s # <<>> THEN Err("TooLong")
         ELSE IF ValidYMD(parsed["%Y"], parsed["%m"], parsed["%d"])
         THEN Ok(Date(parsed["%Y"], parsed["%m"], parsed["%d"]))
         ELSE Err("OutOfRange")
    ELSE LET item == Head(items) IN
         IF IsNumericItem(item)
         THEN LET r == ScanItem(s, item) IN
              IF r.ok
              THEN ParseItems(r.rest, Tail(items), [parsed EXCEPT ![item] = r.val])
              ELSE Err(r.err)
         ELSE IF s = <<>> THEN Err("TooShort")
         ELSE IF Head(s) # item THEN Err("Invalid")
         ELSE ParseItems(Tail(s), Tail(items), parsed)

\* NaiveDate::parse_from_str(date_str, format)
parse_from_str(date_str, format) ==
    ParseItems(date_str, format, [i \in {"%Y", "%m", "%d"} |-> 0])

\* The format strings "%Y-%m-%d", "%d/%m/%Y", "%m/%d/%Y" as item sequences.
FormatYMD == <<"%Y", "-", "%m", "-", "%d">>
FormatDMY == <<"%d", "/", "%m", "/", "%Y">>
FormatMDY == <<"%m", "/", "%d", "/", "%Y">>

\* A loop that ends with the error of the last format of the list.
RECURSIVE TryFormatsKeepingLastError(_, _)
TryFormatsKeepingLastError(date_str, formats) ==
    IF formats = <<>> THEN parse_from_str(date_str, FormatMDY)
    ELSE LET r == parse_from_str(date_str, Head(formats)) IN
         IF r.ok THEN r ELSE TryFormatsKeepingLastError(date_str, Tail(formats))

\* for format in formats { if let Ok(date) = parse_from_str(..) { return } }
RECURSIVE TryFormats(_, _)
TryFormats(date_str, formats) ==
    IF formats = <<>> THEN parse_from_str(date_str, FormatYMD)
    ELSE LET r == parse_from_str(date_str, Head(formats)) IN
         IF r.ok THEN r ELSE TryFormats(date_str, Tail(formats))

\* A format list that tries MM/DD/YYYY before DD/MM/YYYY.
ParseDateMonthFirst(date_str) ==
    TryFormats(date_str, <<FormatYMD, FormatMDY, FormatDMY>>)

\* A format list without DD/MM/YYYY.
ParseDateWithoutDayFirst(date_str) ==
    TryFormats(date_str, <<FormatYMD, FormatMDY>>)

\* parse_date: the formats in order, then the first format's error.
parse_date(date_str) ==
    TryFormats(date_str, <<FormatYMD, FormatDMY, FormatMDY>>)

\* The texts given to parse_date: three digit fields joined by two
\* separators, and a few texts of other shapes.
TextFields ==
    {<<"0", "3">>, <<"0", "4">>, <<"1", "2">>, <<"2", "5">>, <<"3", "1">>,
     <<"0", "2">>, <<"2", "9">>, <<"1", "3">>, <<"3">>,
     <<"2", "0", "2", "4">>, <<"2", "0", "2", "3">>}
Separators == {"/", "-"}
OtherTexts ==
    {<<>>, <<"i", "n", "v", "a", "l", "i", "d">>,
     <<"-", "2", "0", "2", "4", "-", "1", "2", "-", "2", "5">>,
     <<"+", "2", "0", "2", "4", "-", "1", "2", "-", "2", "5">>,
     <<"2", "0", "2", "4", "-", "1", "2", "-", "2", "5", "x">>,
     <<"2", "0", "2", "4", "-", "1", "2">>,
     <<"2", "5", "/", "1", "2", "/">>,
     <<"3", "2", "/", "1", "3", "/", "2", "0", "2", "4">>}
InputTexts ==
    {f1 \o <<s1>> \o f2 \o <<s2>> \o f3 :
        f1 \in TextFields, s1 \in Separators, f2 \in TextFields,
        s2 \in Separators, f3 \in TextFields}
    \cup OtherTexts

InitDate ==
    /\ \/ \E date1, date2 \in InputDates :
             fn = "date_difference" /\ args = <<date1, date2>>
       \/ \E text \in InputTexts : fn = "parse_date" /\ args = <<text>>
    /\ out = <<>>
    /\ pc = "ready"
    /\ locals = <<>>
    /\ StorageIdle

CallDateDifference ==
    /\ pc = "ready" /\ fn = "date_difference"
    /\ Returns(date_difference(args[1], args[2]))

CallParseDate ==
    /\ pc = "ready" /\ fn = "parse_date"
    /\ Returns(parse_date(args[1]))

NextDate == CallDateDifference \/ CallParseDate

SpecDate == InitDate /\ [][NextDate]_vars

(***************************************************************************)
(* Calendar claims                                                         *)
(***************************************************************************)

\* Calendar order on dates, and the calendar itself: every valid date of the
\* years explored.
Before(x, y) ==
    \/ x.y < y.y
    \/ x.y = y.y /\ x.m < y.m
    \/ x.y = y.y /\ x.m = y.m /\ x.d < y.d

Calendar == {x \in [y : Years, m : 1..12, d : 1..31] : ValidYMD(x.y, x.m, x.d)}

\* The signed day count date2 - date1, by counting the days of the calendar
\* from the earlier date up to the later.
DaysFromTo(x, y) == Cardinality({z \in Calendar : ~Before(z, x) /\ Before(z, y)})
SignedDayCount(date1, date2) ==
    IF Before(date2, date1) THEN 0 - DaysFromTo(date2, date1)
    ELSE DaysFromTo(date1, date2)

\* C8 as stated: when date2 is later all three fields are positive, when it
\* is earlier all three are negative.
C8_AllFieldsStrictlySigned ==
    Returned("date_difference") =>
        /\ Before(args[1], args[2]) =>
               (out.days > 0 /\ out.weeks > 0 /\ out.years > 0)
        /\ Before(args[2], args[1]) =>
               (out.days < 0 /\ out.weeks < 0 /\ out.years < 0)

\* C8, amended: days has the sign of date2 - date1; weeks and years never
\* have the opposite sign, and are zero exactly when fewer than 7, resp.
\* 365, days separate the dates.
C8_NoFieldOfOppositeSign ==
    Returned("date_difference") =>
        LET n == SignedDayCount(args[1], args[2]) IN
        /\ Before(args[1], args[2]) =>
               /\ out.days > 0 /\ out.weeks >= 0 /\ out.years >= 0
               /\ out.weeks > 0 <=> n >= 7
               /\ out.years > 0 <=> n >= 365
        /\ Before(args[2], args[1]) =>
               /\ out.days < 0 /\ out.weeks <= 0 /\ out.years <= 0
               /\ out.weeks < 0 <=> n <= 0 - 7
               /\ out.years < 0 <=> n <= 0 - 365

\* C8 witness: date2 one day after date1: days = 1, weeks = 0, years = 0.
C8_Witness ==
    /\ Returned("date_difference")
    /\ args = <<Date(2024, 2, 28), Date(2024, 2, 29)>>
    /\ out = [days |-> 1, weeks |-> 0, years |-> 0]

\* q is n divided by k truncated toward zero: n = k * q + r with |r| < k and
\* r zero or of the sign of n.
IsTruncatedQuotient(q, n, k) ==
    \E r \in (1 - k)..(k - 1) :
        /\ n = k * q + r
        /\ n >= 0 => r >= 0
        /\ n <= 0 => r <= 0

\* C9: with D the signed day count date2 - date1, days = D, weeks = D / 7
\* and years = D / 365, both truncated toward zero; a span of exactly 365
\* days reports years = 1 across a leap day or not; date_difference(d, d)
\* is {0, 0, 0}.
C9_DaysWeeksYearsTruncated ==
    Returned("date_difference") =>
        LET n == SignedDayCount(args[1], args[2]) IN
        /\ out.days = n
        /\ IsTruncatedQuotient(out.weeks, n, 7)
        /\ IsTruncatedQuotient(out.years, n, 365)
        /\ n = 365 => out.years = 1
        /\ args[1] = args[2] => out = [days |-> 0, weeks |-> 0, years |-> 0]

\* C9 witness: from 2025-03-01 back to 2024-02-29 is -366 days: weeks = -52
\* (not -53), years = -1 (not -2).
C9_Witness ==
    /\ Returned("date_difference")
    /\ args = <<Date(2025, 3, 1), Date(2024, 2, 29)>>
    /\ out = [days |-> 0 - 366, weeks |-> 0 - 52, years |-> 0 - 1]

\* The decimal value of a digit field.
RECURSIVE FieldValue(_)
FieldValue(f) ==
    IF f = <<>> THEN 0
    ELSE 10 * FieldValue(SubSeq(f, 1, Len(f) - 1)) + DigitValue(f[Len(f)])

\* A text read as three fields around its two separators, when it is three
\* non-empty digit fields joined by the separator sep.
SeparatorPositions(text) == {i \in 1..Len(text) : ~IsDigit(text[i])}
HasThreeFields(text, sep) ==
    LET ps == SeparatorPositions(text) IN
    /\ Cardinality(ps) = 2
    /\ \A i \in ps : text[i] = sep
    /\ \A i \in ps : i > 1 /\ i < Len(text) /\ (i + 1) \notin ps
FieldOf(text, k) ==
    LET ps == SeparatorPositions(text)
        i == CHOOSE x \in ps : \A z \in ps : x <= z
        j == CHOOSE x \in ps : \A z \in ps : x >= z
    IN IF k = 1 THEN SubSeq(text, 1, i - 1)
       ELSE IF k = 2 THEN SubSeq(text, i + 1, j - 1)
       ELSE SubSeq(text, j + 1, Len(text))

\* C10: parse_date returns the first successful reading in the order
\* YYYY-MM-DD, DD/MM/YYYY, MM/DD/YYYY: a slash text that is a date under
\* DD/MM/YYYY is returned as that reading, also when it is a date under
\* MM/DD/YYYY too; the MM/DD/YYYY reading is returned only when the
\* DD/MM/YYYY reading is not a date.
C10_FirstLayoutInOrderWins ==
    Returned("parse_date") =>
        LET text == args[1] IN
        /\ (/\ HasThreeFields(text, "/")
            /\ Len(FieldOf(text, 1)) <= 2 /\ Len(FieldOf(text, 2)) <= 2
            /\ Len(FieldOf(text, 3)) <= 4)
           => LET a == FieldValue(FieldOf(text, 1))
                  b == FieldValue(FieldOf(text, 2))
                  y == FieldValue(FieldOf(text, 3))
              IN
              /\ ValidYMD(y, b, a) => out = Ok(Date(y, b, a))
              /\ (~ValidYMD(y, b, a) /\ ValidYMD(y, a, b)) => out = Ok(Date(y, a, b))
              /\ (~ValidYMD(y, b, a) /\ ~ValidYMD(y, a, b)) => ~out.ok
        /\ (/\ HasThreeFields(text, "-")
            /\ Len(FieldOf(text, 1)) <= 4 /\ Len(FieldOf(text, 2)) <= 2
            /\ Len(FieldOf(text, 3)) <= 2)
           => LET y == FieldValue(FieldOf(text, 1))
                  m == FieldValue(FieldOf(text, 2))
                  d == FieldValue(FieldOf(text, 3))
              IN ValidYMD(y, m, d) => out = Ok(Date(y, m, d))

\* C10 witness: 03/04/2024, a date under both slash layouts, was returned as
\* day 3, month 4.
C10_Witness ==
    /\ Returned("parse_date")
    /\ args = <<(<<"0", "3", "/", "0", "4", "/", "2", "0", "2", "4">>)>>
    /\ ValidYMD(2024, 4, 3) /\ ValidYMD(2024, 3, 4)
    /\ out = Ok(Date(2024, 4, 3))

(***************************************************************************)
(* Calendar module: format_date and validate_date_format                   *)
(***************************************************************************)

\* A number's decimal digits, zero-padded to at least `width` characters.
RECURSIVE ZeroPadded(_, _)
ZeroPadded(n, width) ==
    IF n < 10 /\ width <= 1 THEN <<DigitChars[n + 1]>>
    ELSE ZeroPadded(n \div 10, width - 1) \o <<DigitChars[(n % 10) + 1]>>

\* chrono's %B: the full English month name.
MonthNames ==
    <<<<"J", "a", "n", "u", "a", "r", "y">>,
      <<"F", "e", "b", "r", "u", "a", "r", "y">>,
      <<"M", "a", "r", "c", "h">>,
      <<"A", "p", "r", "i", "l">>,
      <<"M", "a", "y">>,
      <<"J", "u", "n", "e">>,
      <<"J", "u", "l", "y">>,
      <<"A", "u", "g", "u", "s", "t">>,
      <<"S", "e", "p", "t", "e", "m", "b", "e", "r">>,
      <<"O", "c", "t", "o", "b", "e", "r">>,
      <<"N", "o", "v", "e", "m", "b", "e", "r">>,
      <<"D", "e", "c", "e", "m", "b", "e", "r">>>>

\* chrono's rendering of one item: %d and %m as two digits, %Y as four
\* digits, or with a sign when the year is outside 0..9999, %B as the month
\* name, anything else as itself.
FormatItem(date, item) ==
    IF item = "%d" THEN ZeroPadded(date.d, 2)
    ELSE IF item = "%m" THEN ZeroPadded(date.m, 2)
    ELSE IF item = "%Y"
    THEN IF date.y >= 0 /\ date.y <= 9999 THEN ZeroPadded(date.y, 4)
         ELSE IF date.y < 0 THEN <<"-">> \o ZeroPadded(0 - date.y, 4)
         ELSE <<"+">> \o ZeroPadded(date.y, 4)
    ELSE IF item = "%B" THEN MonthNames[date.m]
    ELSE <<item>>

\* date.format(chrono_format).to_string()
RECURSIVE FormatItems(_, _)
FormatItems(date, items) ==
    IF items = <<>> THEN <<>>
    ELSE FormatItem(date, Head(items)) \o FormatItems(date, Tail(items))

\* The format string "%B %d, %Y" as an item sequence.
FormatMonthName == <<"%B", " ", "%d", ",", " ", "%Y">>

\* A name table with the two slash layouts exchanged.
FormatDateSwappedLayouts(date, format) ==
    IF format = "DD/MM/YYYY" THEN Some(FormatItems(date, FormatMDY))
    ELSE IF format = "YYYY-MM-DD" THEN Some(FormatItems(date, FormatYMD))
    ELSE IF format = "MM/DD/YYYY" THEN Some(FormatItems(date, FormatDMY))
    ELSE IF format = "Month DD, YYYY" THEN Some(FormatItems(date, FormatMonthName))
    ELSE None

\* A name table that falls back to YYYY-MM-DD for a name it does not know.
FormatDateWithDefault(date, format) ==
    IF format = "DD/MM/YYYY" THEN Some(FormatItems(date, FormatDMY))
    ELSE IF format = "MM/DD/YYYY" THEN Some(FormatItems(date, FormatMDY))
    ELSE IF format = "Month DD, YYYY" THEN Some(FormatItems(date, FormatMonthName))
    ELSE Some(FormatItems(date, FormatYMD))

\* format_date: the match on the format name, then date.format.
format_date(date, format) ==
    IF format = "DD/MM/YYYY" THEN Some(FormatItems(date, FormatDMY))
    ELSE IF format = "YYYY-MM-DD" THEN Some(FormatItems(date, FormatYMD))
    ELSE IF format = "MM/DD/YYYY" THEN Some(FormatItems(date, FormatMDY))
    ELSE IF format = "Month DD, YYYY" THEN Some(FormatItems(date, FormatMonthName))
    ELSE None

\* A name table that reads DD/MM/YYYY with the month first.
ValidateDayMonthExchanged(date_str, format) ==
    IF format = "DD/MM/YYYY" THEN parse_from_str(date_str, FormatMDY).ok
    ELSE IF format = "YYYY-MM-DD" THEN parse_from_str(date_str, FormatYMD).ok
    ELSE IF format = "MM/DD/YYYY" THEN parse_from_str(date_str, FormatDMY).ok
    ELSE FALSE

\* validate_date_format: the match on the format name, then
\* NaiveDate::parse_from_str(..).is_ok().
validate_date_format(date_str, format) ==
    IF format = "DD/MM/YYYY" THEN parse_from_str(date_str, FormatDMY).ok
    ELSE IF format = "YYYY-MM-DD" THEN parse_from_str(date_str, FormatYMD).ok
    ELSE IF format = "MM/DD/YYYY" THEN parse_from_str(date_str, FormatMDY).ok
    ELSE FALSE

\* The format names given: the four of the table and three others.
FormatNames ==
    {"DD/MM/YYYY", "YYYY-MM-DD", "MM/DD/YYYY", "Month DD, YYYY",
     "INVALID", "dd/mm/yyyy", ""}

\* The dates given to format_date: those of date_difference, and dates whose
\* year has fewer or more than four digits or is negative.
FormatDates ==
    InputDates \cup
    {Date(2024, 7, 4), Date(987, 6, 5), Date(12024, 1, 2), Date(0 - 44, 3, 15),
     Date(2024, 5, 12), Date(2024, 5, 13), Date(2024, 12, 12)}

\* The texts given to validate_date_format: those of parse_date, and 29
\* February of century years.
CenturyTexts ==
    {<<"1", "9", "0", "0", "-", "0", "2", "-", "2", "9">>,
     <<"2", "0", "0", "0", "-", "0", "2", "-", "2", "9">>,
     <<"2", "9", "/", "0", "2", "/", "1", "9", "0", "0">>,
     <<"2", "9", "/", "0", "2", "/", "2", "0", "0", "0">>,
     <<"0", "2", "/", "2", "9", "/", "1", "9", "0", "0">>,
     <<"0", "2", "/", "2", "9", "/", "2", "0", "0", "0">>}

InitFormat ==
    /\ \/ \E date \in FormatDates, name \in FormatNames :
             fn = "format_date" /\ args = <<date, name>>
       \/ \E text \in InputTexts \cup CenturyTexts, name \in FormatNames :
             fn = "validate_date_format" /\ args = <<text, name>>
    /\ out = <<>>
    /\ pc = "ready"
    /\ locals = <<>>
    /\ StorageIdle

CallFormatDate ==
    /\ pc = "ready" /\ fn = "format_date"
    /\ Returns(format_date(args[1], args[2]))

CallValidateDateFormat ==
    /\ pc = "ready" /\ fn = "validate_date_format"
    /\ Returns(validate_date_format(args[1], args[2]))

NextFormat == CallFormatDate \/ CallValidateDateFormat

SpecFormat == InitFormat /\ [][NextFormat]_vars

\* C11: for every valid date d, formatting d as YYYY-MM-DD or as DD/MM/YYYY
\* and parsing the text back with parse_date yields d.
C11_FormatThenParseRoundTrip ==
    (Returned("format_date") /\ args[2] \in {"YYYY-MM-DD", "DD/MM/YYYY"}) =>
        /\ out # None
        /\ parse_date(out[1]) = Ok(args[1])

\* C11 witness: 2024-03-01, whose day and month are both at most 12, was
\* formatted as 01/03/2024, which parses back to 1 March.
C11_Witness ==
    /\ Returned("format_date")
    /\ args = <<Date(2024, 3, 1), "DD/MM/YYYY">>
    /\ out = Some(<<"0", "1", "/", "0", "3", "/", "2", "0", "2", "4">>)
    /\ parse_date(out[1]) = Ok(Date(2024, 3, 1))

\* The three layouts a text can be read under, and the separator of each.
InputLayouts == {"DD/MM/YYYY", "YYYY-MM-DD", "MM/DD/YYYY"}
SeparatorOf(layout) == IF layout = "YYYY-MM-DD" THEN "-" ELSE "/"

\* A day or month field is one or two digits; a year field is one to four
\* digits, or a sign followed by digits.
IsDigits(f) == f # <<>> /\ \A i \in 1..Len(f) : IsDigit(f[i])
IsShortField(f) == IsDigits(f) /\ Len(f) <= 2
IsYearField(f) ==
    \/ IsDigits(f) /\ Len(f) <= 4
    \/ Len(f) >= 2 /\ f[1] \in {"+", "-"} /\ IsDigits(Tail(f))
YearValue(f) ==
    IF f[1] = "-" THEN 0 - FieldValue(Tail(f))
    ELSE IF f[1] = "+" THEN FieldValue(Tail(f))
    ELSE FieldValue(f)

\* The ways of cutting a text into three fields at two separators.
Splits(text, sep) ==
    {<<SubSeq(text, 1, i - 1), SubSeq(text, i + 1, j - 1),
       SubSeq(text, j + 1, Len(text))>> :
        <<i, j>> \in {<<i, j>> \in (1..Len(text)) \X (1..Len(text)) :
                         i < j /\ text[i] = sep /\ text[j] = sep}}

\* A real calendar date: month in 1..12 and day within the length of the
\* month, 29 February only in years divisible by 4 and not by 100 unless
\* by 400.
LeapYearRule(y) == (y % 4 = 0) /\ ((y % 100 # 0) \/ (y % 400 = 0))
RealCalendarDate(y, m, d) ==
    /\ m \in 1..12
    /\ d >= 1
    /\ d <= (IF m \in {4, 6, 9, 11} THEN 30
             ELSE IF m = 2 THEN (IF LeapYearRule(y) THEN 29 ELSE 28)
             ELSE 31)

\* The text has the layout's syntax and its fields form a calendar date.
IsDateUnder(text, layout) ==
    \E s \in Splits(text, SeparatorOf(layout)) :
        IF layout = "YYYY-MM-DD"
        THEN /\ IsYearField(s[1]) /\ IsShortField(s[2]) /\ IsShortField(s[3])
             /\ RealCalendarDate(YearValue(s[1]), FieldValue(s[2]), FieldValue(s[3]))
        ELSE IF layout = "DD/MM/YYYY"
        THEN /\ IsShortField(s[1]) /\ IsShortField(s[2]) /\ IsYearField(s[3])
             /\ RealCalendarDate(YearValue(s[3]), FieldValue(s[2]), FieldValue(s[1]))
        ELSE /\ IsShortField(s[1]) /\ IsShortField(s[2]) /\ IsYearField(s[3])
             /\ RealCalendarDate(YearValue(s[3]), FieldValue(s[1]), FieldValue(s[2]))

\* C12: parse_date fails exactly when the text is a date under none of the
\* three layouts, and the error it returns is then the error of attempting
\* the first layout, YYYY-MM-DD.
C12_FailsWithFirstLayoutError ==
    Returned("parse_date") =>
        LET text == args[1] IN
        /\ ~out.ok <=> (\A layout \in InputLayouts : ~IsDateUnder(text, layout))
        /\ ~out.ok => out = parse_from_str(text, FormatYMD)

\* C12 witness: 32/13/2024 is a date under no layout; the failure carries
\* the first layout's error, which differs from the last layout's.
C12_Witness ==
    /\ Returned("parse_date")
    /\ args = <<(<<"3", "2", "/", "1", "3", "/", "2", "0", "2", "4">>)>>
    /\ out = Err("Invalid")
    /\ parse_from_str(args[1], FormatYMD) = Err("Invalid")
    /\ parse_from_str(args[1], FormatMDY) = Err("OutOfRange")

\* C13: for each of the three input layouts, validate_date_format is true
\* exactly when the text has the layout's syntax and its year, month and day
\* form a real calendar date, 29 February only in leap years; a text in
\* another layout's syntax is rejected.
C13_ValidExactlyForCalendarDates ==
    (Returned("validate_date_format") /\ args[2] \in InputLayouts) =>
        /\ out = IsDateUnder(args[1], args[2])
        /\ (\A i \in 1..Len(args[1]) : args[1][i] # SeparatorOf(args[2]))
               => out = FALSE

\* C13 witness: 1900-02-29 was rejected under YYYY-MM-DD, 1900 being
\* divisible by 100 and not by 400, while 2000-02-29 and 2024-02-29 are
\* accepted and 2023-02-29 is not.
C13_Witness ==
    /\ Returned("validate_date_format")
    /\ args = <<(<<"1", "9", "0", "0", "-", "0", "2", "-", "2", "9">>), "YYYY-MM-DD">>
    /\ out = FALSE
    /\ validate_date_format(<<"2", "0", "0", "0", "-", "0", "2", "-", "2", "9">>, "YYYY-MM-DD")
    /\ validate_date_format(<<"2", "0", "2", "4", "-", "0", "2", "-", "2", "9">>, "YYYY-MM-DD")
    /\ ~validate_date_format(<<"2", "0", "2", "3", "-", "0", "2", "-", "2", "9">>, "YYYY-MM-DD")
    /\ ~validate_date_format(<<"2", "0", "2", "4", "-", "0", "2", "-", "2", "9">>, "DD/MM/YYYY")

\* The names format_date knows: the three input layouts and the month-name
\* layout.
OutputLayouts == InputLayouts \cup {"Month DD, YYYY"}

\* C14: the set of format names is closed: format_date returns a present
\* text for exactly the four names and the absent outcome for every other
\* name; validate_date_format returns false, for every text, for every name
\* other than the three input layouts, "Month DD, YYYY" included.
C14_FormatNamesClosed ==
    /\ Returned("format_date") =>
           /\ (args[2] \in OutputLayouts) => (Len(out) = 1 /\ Len(out[1]) > 0)
           /\ (args[2] \notin OutputLayouts) => out = None
    /\ (Returned("validate_date_format") /\ args[2] \notin InputLayouts) =>
           out = FALSE

\* C14 witness: 25/12/2024 was refused under the output-only name
\* "Month DD, YYYY", which format_date renders and an unknown name it does
\* not.
C14_Witness ==
    /\ Returned("validate_date_format")
    /\ args = <<(<<"2", "5", "/", "1", "2", "/", "2", "0", "2", "4">>), "Month DD, YYYY">>
    /\ out = FALSE
    /\ validate_date_format(args[1], "DD/MM/YYYY")
    /\ format_date(Date(2024, 12, 25), "Month DD, YYYY") = Some(<<"D", "e", "c", "e", "m", "b", "e", "r", " ", "2", "5", ",", " ", "2", "0", "2", "4">>)
    /\ format_date(Date(2024, 12, 25), "dd/mm/yyyy") = None

(***************************************************************************)
(* Text module: is_palindrome and reverse_string                           *)
(***************************************************************************)

MaxTextLen == 4

\* The characters of the texts given, as scalar values: a, A, b, i, 1,
\* space, comma, e-acute, and capital I with dot above (U+0130), whose
\* lowercase is the two characters i and combining dot above (U+0307).
TextChars == {97, 65, 98, 105, 49, 32, 44, 233, 304}

\* char::is_alphanumeric on the characters that occur.
is_alphanumeric(c) ==
    \/ c \in 48..57
    \/ c \in 65..90
    \/ c \in 97..122
    \/ c \in {233, 304}

\* A lowercase mapping that leaves every character as it is.
ToLowercaseIdentity(c) == <<c>>

\* char::to_lowercase: an iterator of one character, or of two for U+0130.
to_lowercase(c) ==
    IF c \in 65..90 THEN <<c + 32>>
    ELSE IF c = 304 THEN <<105, 775>>
    ELSE <<c>>

\* s.chars().filter(|c| c.is_alphanumeric())
\*     .map(|c| c.to_lowercase().next().unwrap()).collect()
RECURSIVE Cleaned(_)
Cleaned(s) ==
    IF s = <<>> THEN <<>>
    ELSE IF is_alphanumeric(Head(s))
    THEN <<Head(to_lowercase(Head(s)))>> \o Cleaned(Tail(s))
    ELSE Cleaned(Tail(s))

\* s.chars().rev().collect(): the scalar values in reverse order.
RECURSIVE CharsRev(_)
CharsRev(s) ==
    IF s = <<>> THEN <<>> ELSE CharsRev(Tail(s)) \o <<Head(s)>>

\* is_palindrome: cleaned == cleaned.chars().rev().collect()
is_palindrome(s) == Cleaned(s) = CharsRev(Cleaned(s))

\* A reversal of the bytes of the UTF-8 encoding, each read as a character.
ReverseBytes(s) == CharsRev(as_bytes(s))

\* reverse_string: s.chars().rev().collect()
reverse_string(s) == CharsRev(s)

\* The texts given: every sequence of up to MaxTextLen characters.
Texts == UNION {[1..n -> TextChars] : n \in 0..MaxTextLen}

InitText ==
    /\ fn \in {"is_palindrome", "reverse_string"}
    /\ \E s \in Texts : args = <<s>>
    /\ out = <<>>
    /\ pc = "ready"
    /\ locals = <<>>
    /\ StorageIdle

CallIsPalindrome ==
    /\ pc = "ready" /\ fn = "is_palindrome"
    /\ Returns(is_palindrome(args[1]))

CallReverseString ==
    /\ pc = "ready" /\ fn = "reverse_string"
    /\ Returns(reverse_string(args[1]))

NextText == CallIsPalindrome \/ CallReverseString

SpecText == InitText /\ [][NextText]_vars

\* Two characters that are the same letter or digit up to case.
CasePairs == {<<65, 97>>, <<66, 98>>, <<73, 105>>}
SameUpToCase(c, d) == c = d \/ <<c, d>> \in CasePairs \/ <<d, c>> \in CasePairs
OtherCase(c) ==
    IF \E p \in CasePairs : p[1] = c THEN (CHOOSE p \in CasePairs : p[1] = c)[2]
    ELSE IF \E p \in CasePairs : p[2] = c THEN (CHOOSE p \in CasePairs : p[2] = c)[1]
    ELSE c

\* Letters, digits, and the characters that are neither.
Alphanumerics == {97, 65, 98, 105, 49, 233, 304}
Punctuation == {32, 44}

\* A text over characters whose lowercase is a single character.
OneToOneLowercase(s) == \A i \in 1..Len(s) : s[i] # 304

\* The positions of the letters and digits of a text, in order.
RECURSIVE AlnumPositions(_, _)
AlnumPositions(s, i) ==
    IF i > Len(s) THEN <<>>
    ELSE IF s[i] \in Alphanumerics THEN <<i>> \o AlnumPositions(s, i + 1)
    ELSE AlnumPositions(s, i + 1)

\* The letters and digits of a text read the same in both directions, up
\* to case.
ReadsSameBothWays(s) ==
    LET ps == AlnumPositions(s, 1) IN
    \A k \in 1..Len(ps) : SameUpToCase(s[ps[k]], s[ps[Len(ps) + 1 - k]])

\* The texts one edit away: the case of one letter changed, one character
\* that is no letter or digit inserted, or one removed.
CaseChanged(s, i) == [s EXCEPT ![i] = OtherCase(s[i])]
Inserted(s, i, c) == SubSeq(s, 1, i) \o <<c>> \o SubSeq(s, i + 1, Len(s))
Removed(s, i) == SubSeq(s, 1, i - 1) \o SubSeq(s, i + 1, Len(s))

\* C15: over characters whose lowercase is one-to-one, is_palindrome is
\* true exactly when the alphanumeric characters read the same in both
\* directions up to case, and it is unchanged by a change of case and by
\* inserting or removing a non-alphanumeric character.
C15_PalindromeIgnoresCaseAndPunctuation ==
    (Returned("is_palindrome") /\ OneToOneLowercase(args[1])) =>
        LET s == args[1] IN
        /\ out = ReadsSameBothWays(s)
        /\ \A i \in 1..Len(s) : is_palindrome(CaseChanged(s, i)) = out
        /\ \A i \in 0..Len(s), c \in Punctuation :
               is_palindrome(Inserted(s, i, c)) = out
        /\ \A i \in 1..Len(s) :
               s[i] \in Punctuation => is_palindrome(Removed(s, i)) = out
        /\ (\A i \in 1..Len(s) : s[i] \in Punctuation) => out = TRUE
        /\ Len(s) <= 1 => out = TRUE

\* C15 witness: "A, a" is a palindrome, and so is "Aa" without the comma
\* and the space, while "Ab" is not.
C15_Witness ==
    /\ Returned("is_palindrome")
    /\ args = <<(<<65, 44, 32, 97>>)>>
    /\ out = TRUE
    /\ is_palindrome(<<65, 97>>)
    /\ ~is_palindrome(<<65, 98>>)

\* C16: reverse_string(s) has the length of s, its i-th character is the
\* character of s at the mirrored position, characters being whole scalar
\* values, and reversing it again gives s.
C16_ReverseIsInvolution ==
    Returned("reverse_string") =>
        LET s == args[1] IN
        /\ Len(out) = Len(s)
        /\ \A i \in 1..Len(s) : out[i] = s[Len(s) + 1 - i]
        /\ reverse_string(out) = s

\* C16 witness: "aé1", whose middle character takes two bytes, was
\* reversed to "1éa".
C16_Witness ==
    /\ Returned("reverse_string")
    /\ args = <<(<<97, 233, 49>>)>>
    /\ Len(as_bytes(args[1])) = 4
    /\ out = <<49, 233, 97>>
    /\ reverse_string(out) = args[1]

(***************************************************************************)
(* factorial under any value of its cutoff                                 *)
(***************************************************************************)

MaxCutoff == 25

InitCutoff ==
    /\ fn = "factorial_with"
    /\ \E n \in 0..MaxFactorialArg, cutoff \in 0..MaxCutoff : args = <<n, cutoff>>
    /\ out = <<>>
    /\ pc = "ready"
    /\ locals = <<>>
    /\ StorageIdle

CallFactorialWith ==
    /\ pc = "ready" /\ fn = "factorial_with"
    /\ Returns(factorial_with(args[1], args[2]))

NextCutoff == CallFactorialWith

SpecCutoff == InitCutoff /\ [][NextCutoff]_vars

\* C17: for any n and any value of the cutoff, values above 20 included,
\* the result of factorial is either absent or exactly n!, never a wrapped
\* or truncated value, and it is absent whenever n! exceeds 2^64 - 1.
C17_FactorialNeverWraps ==
    Returned("factorial_with") =>
        LET n == args[1]
            cutoff == args[2]
            fits == Leq(ExactFactorial(n), U64Max)
        IN
        /\ out = None \/ out = Some(ExactFactorial(n))
        /\ out # None => Leq(out[1], U64Max)
        /\ ~fits => out = None
        /\ (fits /\ n <= cutoff) => out = Some(ExactFactorial(n))

\* C17 witness: with the cutoff at 25, factorial(21) passed the cutoff test
\* and was refused by the checked multiplication, 21! exceeding 2^64 - 1.
C17_Witness ==
    /\ Returned("factorial_with")
    /\ args = <<21, 25>>
    /\ ~Leq(ExactFactorial(21), U64Max)
    /\ out = None

(***************************************************************************)
(* gcd, one loop iteration at a time                                       *)
(***************************************************************************)

InitGcdLoop ==
    /\ fn = "gcd"
    /\ \E a, b \in 0..MaxGcdArg : args = <<a, b>>
    /\ out = <<>>
    /\ pc = "ready"
    /\ locals = <<>>
    /\ StorageIdle

\* fn gcd(mut a: u64, mut b: u64): the parameters become the loop's locals.
GcdEnter ==
    /\ pc = "ready"
    /\ locals' = <<args[1], args[2]>>
    /\ pc' = "loop"
    /\ UNCHANGED <<fn, args, out>>
    /\ UNCHANGED storageVars

\* while b != 0 { let temp = b; b = a % b; a = temp; }
GcdIterate ==
    /\ pc = "loop"
    /\ locals[2] # 0
    /\ locals' = GcdBody(locals[1], locals[2])
    /\ UNCHANGED <<fn, args, out, pc>>
    /\ UNCHANGED storageVars

\* The loop exits with b = 0 and a is returned.
GcdReturn ==
    /\ pc = "loop"
    /\ locals[2] = 0
    /\ out' = locals[1]
    /\ pc' = "done"
    /\ UNCHANGED <<fn, args, locals>>
    /\ UNCHANGED storageVars

NextGcdLoop == GcdEnter \/ GcdIterate \/ GcdReturn

\* The call keeps running: a step that can be taken is eventually taken.
SpecGcdLoop ==
    InitGcdLoop /\ [][NextGcdLoop]_vars /\ WF_<<pc, locals>>(NextGcdLoop)

\* C18: gcd(a, b) terminates for all a and b: every iteration of the loop
\* replaces b by a value strictly smaller than the previous b, b staying
\* non-negative, so the loop exits.
C18_GcdTerminates ==
    /\ <>(pc = "done")
    /\ [][(pc = "loop" /\ pc' = "loop") =>
             (locals'[2] < locals[2] /\ locals'[2] >= 0
              /\ locals'[2] = locals[1] % locals[2])]_locals

\* C18 witness: gcd(12, 18) returned 6 after its loop ran with b = 18, 12,
\* 6, 0.
C18_Witness ==
    /\ Returned("gcd")
    /\ args = <<12, 18>>
    /\ locals = <<6, 0>>
    /\ out = 6

(***************************************************************************)
(* Frame of the storage operations                                         *)
(***************************************************************************)

\* A call was made in this step, and the call it was.
CallMade == Len(calls') = Len(calls) + 1
LastCall == calls'[Len(calls')]

\* C20: read_file, whether it succeeds or fails, leaves the existence and
\* content of every file unchanged and never creates the addressed path;
\* write_file and append_to_file change no path other than the one given.
C20_Frame ==
    [][CallMade =>
          /\ IsRead(LastCall) => fs' = fs
          /\ \A p \in Paths \ {LastCall.path} : fs'[p] = fs[p]]_vars

\* C20 witness: a failed read of the absent b.txt and a write to a.txt have
\* been made; b.txt is still absent.
C20_Witness ==
    /\ Len(calls) = 2
    /\ calls[1] = Call("read_file", "b.txt", <<>>, Err("NotFound"))
    /\ calls[2] = Call("write_file", "a.txt", <<97>>, Ok(<<>>))
    /\ fs0["a.txt"] = FileOf(<<195, 169, 97>>)
    /\ fs["a.txt"] = FileOf(<<97>>)
    /\ fs["b.txt"] = Absent
    /\ fs["missing_dir/c.txt"] = Absent

(***************************************************************************)
(* Storage module: calls running concurrently                              *)
(***************************************************************************)

\* Three callers, each making one call; a call is two steps on the file
\* system, the open and then the write_all or read_to_string.
Threads == {"t1", "t2", "t3"}
SharedPaths == {"a.txt", "missing_dir/c.txt"}
SharedContents == {<<97>>, <<233>>}

Pending == [ok |-> FALSE, val |-> <<>>, err |-> "pending"]

Thread(op, path, content) ==
    [op |-> op, path |-> path, content |-> content, pc |-> "start",
     res |-> Pending]

ThreadCalls ==
    {Thread(op, path, content) :
        op \in {"write_file", "append_to_file"}, path \in SharedPaths,
        content \in SharedContents}
    \cup {Thread("read_file", path, <<>>) : path \in SharedPaths}

\* A lock that every call holds on its path from its open to its end.
LockHeldWhileOpen(ths, path) ==
    {u \in Threads : ths[u].pc = "opened" /\ ths[u].path = path}

\* The callers holding a lock on a path: the functions take none.
LockHolders(ths, path) == {}

MayStep(t) == \A u \in LockHolders(threads, threads[t].path) : u = t

Finished(th, res) == [th EXCEPT !.pc = "done", !.res = res]

InitConcurrent ==
    /\ \E f \in InitFiles :
          fs = [p \in Paths |-> IF p = "a.txt" THEN f ELSE Absent]
    /\ fs0 = fs
    /\ calls = <<>>
    /\ threads \in [Threads -> ThreadCalls]
    /\ PureIdle

\* The first statement of a call: File::create(path)?, or
\* OpenOptions::new().create(true).append(true).open(path)?, or
\* File::open(path)?.
ThreadOpen(t) ==
    LET th == threads[t] IN
    /\ th.pc = "start"
    /\ MayStep(t)
    /\ IF th.op = "read_file"
       THEN /\ fs' = fs
            /\ threads' = [threads EXCEPT ![t] =
                   IF FileOpen(fs, th.path).ok THEN [th EXCEPT !.pc = "opened"]
                   ELSE Finished(th, Err("NotFound"))]
       ELSE IF ~ParentExists(th.path)
       THEN /\ fs' = fs
            /\ threads' = [threads EXCEPT ![t] = Finished(th, Err("NotFound"))]
       ELSE /\ fs' = IF th.op = "write_file" THEN FileCreate(fs, th.path)
                     ELSE OpenAppend(fs, th.path)
            /\ threads' = [threads EXCEPT ![t] = [th EXCEPT !.pc = "opened"]]
    /\ UNCHANGED <<fs0, calls>>
    /\ UNCHANGED pureVars

\* The second statement of a call, on the file as it is by then:
\* file.write_all(content.as_bytes()) from offset 0 or at the end, or
\* file.read_to_string(&mut content)?.
ThreadIo(t) ==
    LET th == threads[t]
        bytes == fs[th.path].bytes
    IN
    /\ th.pc = "opened"
    /\ MayStep(t)
    /\ IF th.op = "read_file"
       THEN /\ fs' = fs
            /\ threads' = [threads EXCEPT ![t] =
                   Finished(th, IF from_utf8(bytes) = None THEN Err("InvalidData")
                                ELSE Ok(from_utf8(bytes)[1]))]
       ELSE /\ fs' = [fs EXCEPT ![th.path] =
                   FileOf(IF th.op = "write_file"
                          THEN WriteAt(bytes, 0, as_bytes(th.content))
                          ELSE WriteAppend(bytes, as_bytes(th.content)))]
            /\ threads' = [threads EXCEPT ![t] = Finished(th, Ok(<<>>))]
    /\ UNCHANGED <<fs0, calls>>
    /\ UNCHANGED pureVars

NextConcurrent == \E t \in Threads : ThreadOpen(t) \/ ThreadIo(t)

SpecConcurrent == InitConcurrent /\ [][NextConcurrent]_vars

\* The outcomes of the same three calls made one after another, each as a
\* whole, in a given order.
Orders ==
    {o \in [1..3 -> Threads] : \A i, j \in 1..3 : i # j => o[i] # o[j]}
AfterCall(f, th) ==
    IF th.op = "write_file" THEN write_file(f, th.path, th.content).fs
    ELSE IF th.op = "append_to_file" THEN append_to_file(f, th.path, th.content).fs
    ELSE f
RECURSIVE AfterCalls(_, _, _)
AfterCalls(f, o, n) ==
    IF n = 0 THEN f ELSE AfterCall(AfterCalls(f, o, n - 1), threads[o[n]])
SerialFiles == {AfterCalls(fs0, o, 3) : o \in Orders}
SerialReads(t) ==
    {read_file(AfterCalls(fs0, o, n), threads[t].path) : o \in Orders, n \in 0..2}

AllDone == \A t \in Threads : threads[t].pc = "done"

\* C19: the storage operations provide no mutual exclusion: whatever the
\* other callers are in the middle of, between the open step and the write
\* step of a write_file included, every unfinished call can take its next
\* step.
C19_NoMutualExclusion ==
    \A t \in Threads :
        threads[t].pc # "done" => ENABLED (ThreadOpen(t) \/ ThreadIo(t))

\* C19 witness: two write_file calls and a read_file on a.txt, which held
\* "éa", have interleaved: the file ends as the bytes 97, 169, the result of
\* no serial order of the three calls, and the read returned the empty
\* text of the truncated file, which it returns in no serial order.
C19_Witness ==
    /\ AllDone
    /\ fs0["a.txt"] = FileOf(<<195, 169, 97>>)
    /\ threads["t1"].op = "write_file" /\ threads["t1"].content = <<233>>
    /\ threads["t2"].op = "write_file" /\ threads["t2"].content = <<97>>
    /\ threads["t3"].op = "read_file"
    /\ \A t \in Threads : threads[t].path = "a.txt"
    /\ fs["a.txt"] = FileOf(<<97, 169>>)
    /\ fs \notin SerialFiles
    /\ threads["t3"].res = Ok(<<>>)
    /\ threads["t3"].res \notin SerialReads("t3")

(***************************************************************************)
(* Round trip through MM/DD/YYYY                                           *)
(***************************************************************************)

\* C21: for a valid date d, parse_date(format_date(d, "MM/DD/YYYY")) equals
\* d only when d's day is greater than 12 or equals d's month; when the day
\* is at most 12 and differs from the month, parse_date succeeds and
\* returns the date with day and month exchanged.
C21_MonthFirstRoundTripOnlyWhenUnambiguous ==
    (Returned("format_date") /\ args[2] = "MM/DD/YYYY") =>
        LET d == args[1]
            r == parse_date(out[1])
        IN
        /\ out # None
        /\ r.ok
        /\ (r = Ok(d)) <=> (d.d > 12 \/ d.d = d.m)
        /\ (d.d <= 12 /\ d.d # d.m) => r = Ok(Date(d.y, d.d, d.m))

\* C21 witness: 12 May 2024 was formatted as 05/12/2024, which parse_date
\* reads as 5 December 2024, while 13 May 2024 comes back unchanged.
C21_Witness ==
    /\ Returned("format_date")
    /\ args = <<Date(2024, 5, 12), "MM/DD/YYYY">>
    /\ out = Some(<<"0", "5", "/", "1", "2", "/", "2", "0", "2", "4">>)
    /\ parse_date(out[1]) = Ok(Date(2024, 12, 5))
    /\ parse_date(format_date(Date(2024, 5, 13), "MM/DD/YYYY")[1])
           = Ok(Date(2024, 5, 13))

====
